---- MODULE Spec2Model ----
(***************************************************************************)
(* AudioProcessor (the Pipeline Coordinator of MeetingPro): the three      *)
(* stage operations convertToWav / transcribeAudio / segmentByTopics, the  *)
(* progress record and its callback, and cancel(), interleaved at every    *)
(* await of the source.  The transcoder engine and the two remote services *)
(* are the environment: each of their calls may succeed or reject.         *)
(* Spec is one AudioProcessor instance under an arbitrary sequential       *)
(* caller.  SpecApp is the App component: its state, its handlers and the  *)
(* runs of handleClientFormSubmit, each with an AudioProcessor of its own. *)
(* SpecWave is the AudioWaveform component: the runs of its effect, their  *)
(* WaveSurfer instances and the effect's cleanup.                          *)
(*                                                                         *)
(* Fractions are scaled by Unit: 1.0 is Unit, 0.1 is Pending.  Only finite *)
(* numbers are modelled (no NaN).                                          *)
(* An error message is a sequence of text pieces, so that prefixing a      *)
(* message ('Failed to convert audio: ' + m) is concatenation and          *)
(* String.includes is a search through the pieces.                         *)
(***************************************************************************)
EXTENDS Integers, Sequences, FiniteSets, TLC

\* ---------------------------------------------------------------- bounds
\* how far outside [0,1] an engine progress value may lie (scaled by Unit)
MaxOver == 5
\* how many progress and bitrate events the engine emits during one exec
MaxEvents == 2
\* how many times the form is submitted (runs of handleClientFormSubmit)
MaxRuns == 2
\* how many times the effect of AudioWaveform runs
MaxEffects == 3

\* ------------------------------------------------------------- constants
Unit == 10
Pending == 1

Stages == {"converting", "transcribing", "analyzing"}

\* values the engine's progress event may carry
EngineValues == {0 - MaxOver, 0, Unit \div 2, Unit, Unit + MaxOver}

\* ---------------------------------------------------------------- errors
Error(msg) == [isError |-> TRUE, message |-> msg]
NonError == [isError |-> FALSE, message |-> <<>>]

OperationCancelled == Error(<<"Operation cancelled">>)
InitConnectivity ==
  Error(<<"Failed to load audio processing components. Please check your internet connection.">>)
InitGeneric == Error(<<"Failed to initialize audio processing. Please try again.">>)
AuthenticationError ==
  Error(<<"Invalid or missing OpenAI API key. Please check your environment variables.">>)
NullSignalTypeError == Error(<<"Cannot read properties of null">>)
JsonSyntaxError == Error(<<"Unexpected token in JSON">>)

\* the needles of the source's String.includes tests that a text piece contains
Needles(piece) ==
  CASE piece = "The operation was aborted" -> {"aborted"}
    [] piece = "failed to fetch" -> {"failed to fetch"}
    [] piece = "Incorrect API key provided" -> {"API key"}
    [] piece = "Invalid or missing OpenAI API key. Please check your environment variables."
         -> {"API key"}
    [] OTHER -> {}

Includes(msg, needle) == \E i \in DOMAIN msg : needle \in Needles(msg[i])

\* what the engine (load, writeFile, exec, readFile, deleteFile) and the
\* helpers toBlobURL / fetchFile may reject with
EngineThrown ==
  { Error(<<"called FFmpeg.terminate()">>),
    Error(<<"The operation was aborted">>),
    Error(<<"failed to fetch">>),
    Error(<<"Failed to fetch">>),
    Error(<<"ffmpeg is not loaded">>),
    NonError }

\* what a request to the transcription / analysis service may reject with
ServiceThrown ==
  { Error(<<"Incorrect API key provided">>),
    Error(<<"Connection error.">>),
    NonError }

MessageOf(e) == IF e.isError THEN e.message ELSE <<"Unknown error">>

\* catch block of ensureFFmpeg
EnsureCatch(e) ==
  IF e.isError /\ Includes(e.message, "aborted") THEN OperationCancelled
  ELSE IF e.isError /\ Includes(e.message, "failed to fetch") THEN InitConnectivity
  ELSE InitGeneric

\* the catch block of convertToWav without its test for the cancellation error
ConvertCatchWrapAll(e) == Error(<<"Failed to convert audio: ">> \o MessageOf(e))

\* catch block of convertToWav
ConvertCatch(e) ==
  IF e.isError /\ e.message = <<"Operation cancelled">> THEN e
  ELSE Error(<<"Failed to convert audio: ">> \o MessageOf(e))

\* catch block of transcribeAudio
TranscribeCatch(e) ==
  IF e.isError /\ Includes(e.message, "API key") THEN AuthenticationError
  ELSE Error(<<"Failed to transcribe audio: ">> \o MessageOf(e))

\* catch block of segmentByTopics
AnalyzeCatch(e) ==
  IF e.isError /\ Includes(e.message, "API key") THEN AuthenticationError
  ELSE Error(<<"Failed to analyze transcription: ">> \o MessageOf(e))

\* ----------------------------------------------------------------- state
VARIABLES
  initialized,      \* AudioProcessor.initialized
  abortController,  \* AudioProcessor.abortController: "null", "live" or "aborted"
  progress,         \* AudioProcessor.progress
  loaded,           \* the FFmpeg instance has a running worker
  storage,          \* the engine's working storage: names of the entries in it
  rejected,         \* the engine call the operation awaits has been rejected
  pc,               \* the await the operation in flight is suspended at, or "idle"
  cancelPc,         \* cancel(): "idle", or "terminated" while it awaits terminate()
  outcome,          \* the operation called last: [op, status, error]
  have,             \* what the caller holds of its run: "none", "wav", "text", "minutes"
  calls,            \* onProgress: the last two callbacks of the run, oldest first
  cancelled,        \* history: cancel() has been called on this instance
  recancelled,      \* history: the last cancel() found the instance as a cancel() leaves it
  cancelledBefore,  \* history: cancel() had been called when the operation was called
  cancelledDuring,  \* history: cancel() was called while the operation was in flight
  work,             \* history: the external calls issued by the operation
  entered,          \* history: the stages entered since the run's convertToWav
  engineValue,      \* history: << the value of the engine's last progress event >>
  lastLog,          \* history: the engine's last log line: "none", "plain" or "bitrate"
  credential,       \* import.meta.env.VITE_OPENAI_API_KEY is set
  ncalls,           \* history: the number of onProgress invocations of the run
  event,            \* history: the triggering events of the run: their number, the last one
  cause,            \* history: where the operation failed last, and what was thrown there
  step,             \* App: step
  audioFile,        \* App: audioFile is not null
  clientData,       \* App: clientData is not null
  minutes,          \* App: minutes: 0 for null, or the run whose result it is
  processing,       \* App: processing
  error,            \* App: error: the message, << >> for null
  audioProcessor,   \* App: audioProcessor: 0 for null, or the run that created it
  progressStatus,   \* App: progressStatus: the stage, and the run whose callback set it
  runs,             \* the invocations of handleClientFormSubmit and their processors
  nruns,            \* history: the number of runs started
  errorFrom,        \* history: the run whose catch block set error, 0 for none
  wavesurferRef,    \* AudioWaveform: wavesurferRef.current: 0 for null, or the instance
  abortControllerRef, \* AudioWaveform: abortControllerRef.current: 0 for null, or the effect run
  audioUrlRef,      \* AudioWaveform: audioUrlRef.current is not null
  isLoading,        \* AudioWaveform: isLoading
  waveformError,    \* AudioWaveform: error is not null
  aborted,          \* the effect runs whose AbortController has been aborted
  instances,        \* the WaveSurfer instance of each effect run: its load, destroyed or not
  cleanup,          \* the effect run whose cleanup React holds, 0 for none
  effects           \* history: the number of effect runs

vars == << initialized, abortController, progress, loaded, storage, rejected, pc,
           cancelPc, outcome, have, calls, cancelled, recancelled,
           cancelledBefore, cancelledDuring, work, entered, engineValue, lastLog, credential,
           ncalls,
           event, cause, step, audioFile, clientData, minutes, processing, error,
           audioProcessor, progressStatus, runs, nruns, errorFrom, wavesurferRef,
           abortControllerRef, audioUrlRef, isLoading, waveformError, aborted, instances,
           cleanup, effects >>

waveVars == << wavesurferRef, abortControllerRef, audioUrlRef, isLoading, waveformError,
               aborted, instances, cleanup, effects >>

appVars == << step, audioFile, clientData, minutes, processing, error, audioProcessor,
              progressStatus, runs, nruns, errorFrom >>
\* what no operation of the AudioProcessor touches
outerVars == << credential, appVars, waveVars >>
\* what no handler of the App touches: its processors are in runs
processorVars == << initialized, abortController, progress, loaded, storage, rejected,
                   pc, cancelPc, outcome, have, calls, cancelled, recancelled,
                   cancelledBefore, cancelledDuring, work, entered, engineValue, lastLog,
                   ncalls, event, cause >>

coordVars == << initialized, abortController, progress >>
engineVars == << loaded, storage, rejected >>
histVars == << cancelled, recancelled, cancelledBefore, cancelledDuring, work, entered,
              engineValue, lastLog >>

InputFile == "input"
OutputFile == "output.wav"

\* the awaits of convertToWav that wait for a call into the engine
EnginePcs == {"load", "writeFile", "exec", "readFile", "rmInput", "rmOutput"}

NoError == [isError |-> FALSE, message |-> <<>>]
Running(op) == [op |-> op, status |-> "running", error |-> NoError]
Returned(op) == [op |-> op, status |-> "returned", error |-> NoError]
Failed(op, e) == [op |-> op, status |-> "failed", error |-> e]

NoEvent == [n |-> 0, stage |-> "none", details |-> "none"]
NoCause == [at |-> "none", thrown |-> NoError]

RunIds == 1..MaxRuns
NoMessage == << >>
NoRun == [stage |-> "unused", cancelledAt |-> "none", failed |-> NoMessage]
InitialProgressStatus == [stage |-> "converting", run |-> 0]

\* the useState initial values of App
InitAppState ==
  /\ step = 1
  /\ audioFile = FALSE
  /\ clientData = FALSE
  /\ minutes = 0
  /\ processing = FALSE
  /\ error = NoMessage
  /\ audioProcessor = 0
  /\ progressStatus = InitialProgressStatus
  /\ runs = [r \in RunIds |-> NoRun]
  /\ nruns = 0
  /\ errorFrom = 0

EffectIds == 1..MaxEffects
NoInstance == [load |-> "none", destroyed |-> FALSE]

\* the useRef and useState initial values of AudioWaveform
InitWaveState ==
  /\ wavesurferRef = 0
  /\ abortControllerRef = 0
  /\ audioUrlRef = FALSE
  /\ isLoading = TRUE
  /\ waveformError = FALSE
  /\ aborted = {}
  /\ instances = [k \in EffectIds |-> NoInstance]
  /\ cleanup = 0
  /\ effects = 0

Init ==
  /\ initialized = FALSE
  /\ abortController = "null"
  /\ progress = [s \in Stages |-> 0]
  /\ loaded = FALSE
  /\ storage = {}
  /\ rejected = FALSE
  /\ pc = "idle"
  /\ cancelPc = "idle"
  /\ outcome = [op |-> "none", status |-> "none", error |-> NoError]
  /\ have = "none"
  /\ calls = <<>>
  /\ cancelled = FALSE
  /\ recancelled = FALSE
  /\ cancelledBefore = FALSE
  /\ cancelledDuring = FALSE
  /\ work = {}
  /\ entered = {}
  /\ engineValue = <<>>
  /\ lastLog = "none"
  /\ credential \in BOOLEAN
  /\ ncalls = 0
  /\ event = NoEvent
  /\ cause = NoCause
  /\ InitAppState
  /\ InitWaveState

\* ------------------------------------------------------- progress record
Min(a, b) == IF a < b THEN a ELSE b
Max(a, b) == IF a > b THEN a ELSE b

\* the clamp without its upper limit
ClampNoCeiling(value) == Max(0, value)

\* Math.min(1, Math.max(0, value))
Clamp(value) == Min(Unit, Max(0, value))

\* handing over the record itself instead of a copy of it
SameObject(record) == [value |-> record, live |-> TRUE]

\* { ...this.progress }: a new object with the slots' values of this moment
Spread(record) == [value |-> record, live |-> FALSE]

\* the arguments of one onProgress invocation; progress is the content of the
\* object at the invocation, live tells whether it is this.progress itself
Callback(stage, snapshot, details) ==
  [stage |-> stage, progress |-> snapshot.value, live |-> snapshot.live,
   details |-> details]

\* what the consumer reads now through the object a callback handed to it
Seen(cb) == IF cb.live THEN progress ELSE cb.progress

Deliver(cb) == IF Len(calls) < 2 THEN Append(calls, cb) ELSE << calls[2], cb >>

\* a triggering event of the run: an engine event or a stage transition
Trigger(stage, details) ==
  event' = [n |-> event.n + 1, stage |-> stage, details |-> details]

\* updateProgress that skips the callback when the slot keeps its value
updateProgressCoalescing(stage, value, details) ==
  IF Clamp(value) = progress[stage]
    THEN UNCHANGED << progress, calls, ncalls >>
    ELSE /\ progress' = [progress EXCEPT ![stage] = Clamp(value)]
         /\ calls' = Deliver(Callback(stage, Spread(progress'), details))
         /\ ncalls' = ncalls + 1

\* updateProgress(stage, value, details)
updateProgress(stage, value, details) ==
  /\ progress' = [progress EXCEPT ![stage] = Clamp(value)]
  /\ calls' = Deliver(Callback(stage, Spread(progress'), details))
  /\ ncalls' = ncalls + 1

\* an operation is called: the bookkeeping of the history variables
Called(op, outsideWork) ==
  /\ cancelledBefore' = cancelled
  /\ cancelledDuring' = FALSE
  /\ work' = outsideWork
  /\ UNCHANGED << cancelled, recancelled >>

\* --------------------------------------------------------- convertToWav
\* convertToWav whose ensureFFmpeg never takes the early return
convertToWavReloading ==
  /\ pc = "idle"
  /\ abortController' = "live"
  /\ pc' = "toBlobURL"
  /\ Called("convert", {"init"})
  /\ loaded' = FALSE
  /\ storage' = {}
  /\ rejected' = FALSE
  /\ outcome' = Running("convert")
  /\ have' = "none"
  /\ calls' = <<>>
  /\ ncalls' = 0
  /\ entered' = {"converting"}
  /\ UNCHANGED << initialized, progress, cancelPc, engineValue >>
  /\ lastLog' = "none"
  /\ event' = NoEvent
  /\ cause' = NoCause
  /\ UNCHANGED outerVars

\* the call: new AbortController, then ensureFFmpeg up to its first await
convertToWav ==
  /\ pc = "idle"
  /\ abortController' = "live"
  /\ IF initialized
       THEN /\ pc' = "ensured"
            /\ Called("convert", {})
            /\ UNCHANGED engineVars
       ELSE /\ pc' = "toBlobURL"
            /\ Called("convert", {"init"})
            /\ loaded' = FALSE
            /\ storage' = {}
            /\ rejected' = FALSE
  /\ outcome' = Running("convert")
  /\ have' = "none"
  /\ calls' = <<>>
  /\ ncalls' = 0
  /\ entered' = {"converting"}
  /\ UNCHANGED << initialized, progress, cancelPc, engineValue >>
  /\ lastLog' = "none"
  /\ event' = NoEvent
  /\ cause' = NoCause
  /\ UNCHANGED outerVars

\* the operation in flight fails with e, thrown at the await it is suspended
\* at; the caller's run ends there
Fail(op, thrown, e) ==
  /\ pc' = "idle"
  /\ have' = "none"
  /\ outcome' = Failed(op, e)
  /\ cause' = [at |-> pc, thrown |-> thrown]

\* the three toBlobURL downloads succeed and ffmpeg.load is called
BlobURLsDone ==
  /\ pc = "toBlobURL"
  /\ pc' = "load"
  /\ rejected' = FALSE
  /\ work' = work \cup {"load"}
  /\ UNCHANGED << coordVars, loaded, storage, cancelPc, outcome, have, calls, ncalls,
                  cancelled, recancelled, cancelledBefore, cancelledDuring, entered, engineValue,
                  lastLog >>
  /\ UNCHANGED << outerVars, event, cause >>

\* a toBlobURL download, or ffmpeg.load, rejects: the catch of ensureFFmpeg,
\* then the catch of convertToWav
EnsureFail ==
  /\ pc \in {"toBlobURL", "load"}
  /\ \E e \in EngineThrown : Fail("convert", e, ConvertCatch(EnsureCatch(e)))
  /\ UNCHANGED << coordVars, engineVars, cancelPc, calls, ncalls, histVars >>
  /\ UNCHANGED << outerVars, event >>

\* ffmpeg.load resolves
LoadDone ==
  /\ pc = "load"
  /\ ~rejected
  /\ loaded' = TRUE
  /\ initialized' = TRUE
  /\ pc' = "ensured"
  /\ UNCHANGED << abortController, progress, storage, rejected, cancelPc, outcome,
                  have, calls, ncalls, histVars >>
  /\ UNCHANGED << outerVars, event, cause >>

\* await ensureFFmpeg() resumes: the test of abortController.signal.aborted
Ensured ==
  /\ pc = "ensured"
  /\ CASE abortController = "null" ->
            Fail("convert", NullSignalTypeError, ConvertCatch(NullSignalTypeError))
       [] abortController = "aborted" ->
            Fail("convert", OperationCancelled, ConvertCatch(OperationCancelled))
       [] OTHER -> pc' = "fetchFile" /\ UNCHANGED << outcome, cause, have >>
  /\ UNCHANGED << coordVars, engineVars, cancelPc, calls, ncalls, histVars >>
  /\ UNCHANGED << outerVars, event >>

\* a call into the engine is issued: without a worker it is rejected at once
Issue(call) ==
  /\ rejected' = ~loaded
  /\ work' = work \cup {call}

\* fetchFile(audioFile) resolves and ffmpeg.writeFile is called
FetchFileDone ==
  /\ pc = "fetchFile"
  /\ pc' = "writeFile"
  /\ Issue("writeFile")
  /\ UNCHANGED << coordVars, loaded, storage, cancelPc, outcome, have, calls, ncalls,
                  cancelled, recancelled, cancelledBefore, cancelledDuring, entered, engineValue,
                  lastLog >>
  /\ UNCHANGED << outerVars, event, cause >>

\* fetchFile, or the engine call awaited, rejects: the catch of convertToWav
ConvertFail ==
  /\ pc \in {"fetchFile"} \cup (EnginePcs \ {"load"})
  /\ \E e \in EngineThrown : Fail("convert", e, ConvertCatch(e))
  /\ UNCHANGED << coordVars, engineVars, cancelPc, calls, ncalls, histVars >>
  /\ UNCHANGED << outerVars, event >>

\* ffmpeg.writeFile resolves and ffmpeg.exec is called
WriteFileDone ==
  /\ pc = "writeFile"
  /\ ~rejected
  /\ storage' = storage \cup {InputFile}
  /\ pc' = "exec"
  /\ Issue("exec")
  /\ UNCHANGED << coordVars, loaded, cancelPc, outcome, have, calls, ncalls,
                  cancelled, recancelled, cancelledBefore, cancelledDuring, entered, engineValue,
                  lastLog >>
  /\ UNCHANGED << outerVars, event, cause >>

\* the engine's 'progress' event during exec
EngineProgress ==
  /\ pc = "exec"
  /\ ~rejected
  /\ event.n < MaxEvents
  /\ \E v \in EngineValues :
       /\ updateProgress("converting", v, "processing")
       /\ engineValue' = << v >>
  /\ Trigger("converting", "processing")
  /\ UNCHANGED << outerVars, cause >>
  /\ UNCHANGED << initialized, abortController, engineVars, pc, cancelPc, outcome,
                  have, cancelled, recancelled, cancelledBefore, cancelledDuring, work, entered,
                  lastLog >>

\* a 'log' handler that reports every line, annotated or not
EngineLogUnfiltered ==
  /\ pc = "exec"
  /\ ~rejected
  /\ event.n < MaxEvents
  /\ \E bitrateMatch \in BOOLEAN :
       /\ updateProgress("converting", progress["converting"],
                         IF bitrateMatch THEN "bitrate" ELSE "none")
       /\ lastLog' = IF bitrateMatch THEN "bitrate" ELSE "plain"
       /\ IF bitrateMatch THEN Trigger("converting", "bitrate") ELSE UNCHANGED event
  /\ UNCHANGED << outerVars, cause >>
  /\ UNCHANGED << initialized, abortController, engineVars, pc, cancelPc, outcome, have,
                  cancelled, recancelled, cancelledBefore, cancelledDuring, work, entered,
                  engineValue >>

\* the engine's 'log' event during exec, with or without a bitrate annotation
EngineLog ==
  /\ pc = "exec"
  /\ ~rejected
  /\ \E bitrateMatch \in BOOLEAN :
       IF bitrateMatch
         THEN /\ event.n < MaxEvents
              /\ updateProgress("converting", progress["converting"], "bitrate")
              /\ Trigger("converting", "bitrate")
              /\ lastLog' = "bitrate"
         ELSE /\ UNCHANGED << progress, calls, ncalls, event >>
              /\ lastLog' = "plain"
  /\ UNCHANGED << outerVars, cause >>
  /\ UNCHANGED << initialized, abortController, engineVars, pc, cancelPc, outcome, have,
                  cancelled, recancelled, cancelledBefore, cancelledDuring, work, entered,
                  engineValue >>

\* ffmpeg.exec resolves and ffmpeg.readFile is called
ExecDone ==
  /\ pc = "exec"
  /\ ~rejected
  /\ storage' = storage \cup {OutputFile}
  /\ pc' = "readFile"
  /\ Issue("readFile")
  /\ UNCHANGED << coordVars, loaded, cancelPc, outcome, have, calls, ncalls,
                  cancelled, recancelled, cancelledBefore, cancelledDuring, entered, engineValue,
                  lastLog >>
  /\ UNCHANGED << outerVars, event, cause >>

\* ffmpeg.readFile resolves and ffmpeg.rm(inputFileName) is called
ReadFileDone ==
  /\ pc = "readFile"
  /\ ~rejected
  /\ pc' = "rmInput"
  /\ Issue("rm")
  /\ UNCHANGED << coordVars, loaded, storage, cancelPc, outcome, have, calls, ncalls,
                  cancelled, recancelled, cancelledBefore, cancelledDuring, entered, engineValue,
                  lastLog >>
  /\ UNCHANGED << outerVars, event, cause >>

\* ffmpeg.rm(inputFileName) resolves and ffmpeg.rm(outputFileName) is called
RmInputDone ==
  /\ pc = "rmInput"
  /\ ~rejected
  /\ storage' = storage \ {InputFile}
  /\ pc' = "rmOutput"
  /\ Issue("rm")
  /\ UNCHANGED << coordVars, loaded, cancelPc, outcome, have, calls, ncalls,
                  cancelled, recancelled, cancelledBefore, cancelledDuring, entered, engineValue,
                  lastLog >>
  /\ UNCHANGED << outerVars, event, cause >>

\* ffmpeg.rm(outputFileName) resolves and convertToWav returns the blob
RmOutputDone ==
  /\ pc = "rmOutput"
  /\ ~rejected
  /\ storage' = storage \ {OutputFile}
  /\ pc' = "idle"
  /\ outcome' = Returned("convert")
  /\ have' = "wav"
  /\ UNCHANGED << coordVars, loaded, rejected, cancelPc, calls, ncalls, histVars >>
  /\ UNCHANGED << outerVars, event, cause >>

\* ---------------------------------------------------------------- cancel
\* what the synchronous part of cancel() leaves: no controller, no worker, an
\* empty working storage, the engine call in flight rejected
Quiesced ==
  /\ abortController = "null"
  /\ ~loaded
  /\ storage = {}
  /\ pc \in EnginePcs => rejected

\* cancel() without the test of this.abortController: abort() on null throws
\* and the promise of cancel() rejects
cancelUnguarded ==
  /\ cancelPc = "idle"
  /\ IF abortController = "null"
       THEN /\ cancelPc' = "rejected"
            /\ UNCHANGED << abortController, engineVars >>
       ELSE /\ abortController' = "null"
            /\ loaded' = FALSE
            /\ storage' = {}
            /\ rejected' = IF pc \in EnginePcs THEN TRUE ELSE rejected
            /\ cancelPc' = "terminated"
  /\ cancelled' = TRUE
  /\ recancelled' = (cancelled /\ Quiesced /\ ~initialized)
  /\ cancelledDuring' = (cancelledDuring \/ pc # "idle")
  /\ UNCHANGED << initialized, progress, pc, outcome, have, calls, ncalls,
                  cancelledBefore, work, entered, engineValue, lastLog >>
  /\ UNCHANGED << outerVars, event, cause >>

\* cancel() up to its await: abort and drop the controller, terminate the engine
cancel ==
  /\ cancelPc = "idle"
  /\ abortController' = IF abortController # "null" THEN "null" ELSE abortController
  /\ loaded' = FALSE
  /\ storage' = {}
  /\ rejected' = IF pc \in EnginePcs THEN TRUE ELSE rejected
  /\ cancelPc' = "terminated"
  /\ cancelled' = TRUE
  /\ recancelled' = (cancelled /\ Quiesced /\ ~initialized)
  /\ cancelledDuring' = (cancelledDuring \/ pc # "idle")
  /\ UNCHANGED << initialized, progress, pc, outcome, have, calls, ncalls, cancelledBefore,
                  work, entered, engineValue, lastLog >>
  /\ UNCHANGED << outerVars, event, cause >>

\* cancel() resumes after await terminate()
cancelDone ==
  /\ cancelPc = "terminated"
  /\ initialized' = FALSE
  /\ cancelPc' = "idle"
  /\ UNCHANGED << abortController, progress, engineVars, pc, outcome, have, calls, ncalls,
                  histVars >>
  /\ UNCHANGED << outerVars, event, cause >>

\* ------------------------------------------------------- transcribeAudio
\* the call, after a convertToWav that returned: the entry test, the pending
\* progress and the request to the transcription service
transcribeAudio ==
  /\ pc = "idle"
  /\ have = "wav"
  /\ entered' = entered \cup {"transcribing"}
  /\ UNCHANGED << engineValue, lastLog, outerVars >>
  /\ IF abortController = "aborted"
       THEN /\ outcome' = Failed("transcribe", OperationCancelled)
            /\ cause' = [at |-> "entry", thrown |-> OperationCancelled]
            /\ have' = "none"
            /\ UNCHANGED event
            /\ Called("transcribe", {})
            /\ UNCHANGED << pc, progress, calls, ncalls >>
       ELSE /\ updateProgress("transcribing", Pending, "none")
            /\ Trigger("transcribing", "none")
            /\ cause' = NoCause
            /\ UNCHANGED have
            /\ pc' = "transcribe"
            /\ outcome' = Running("transcribe")
            /\ Called("transcribe", {"request"})
  /\ UNCHANGED << initialized, abortController, engineVars, cancelPc >>

\* the transcription service answers
TranscribeDone ==
  /\ pc = "transcribe"
  /\ credential
  /\ updateProgress("transcribing", Unit, "none")
  /\ Trigger("transcribing", "none")
  /\ UNCHANGED << outerVars, cause >>
  /\ pc' = "idle"
  /\ outcome' = Returned("transcribe")
  /\ have' = "text"
  /\ UNCHANGED << initialized, abortController, engineVars, cancelPc, histVars >>

\* a rejection of the transcription request that is reported as progress 0
TranscribeFailReporting ==
  /\ pc = "transcribe"
  /\ \E e \in ServiceThrown : Fail("transcribe", e, TranscribeCatch(e))
  /\ updateProgress("transcribing", 0, "none")
  /\ UNCHANGED << initialized, abortController, engineVars, cancelPc, histVars >>
  /\ UNCHANGED << outerVars, event >>

\* the request to the transcription service rejects
TranscribeFail ==
  /\ pc = "transcribe"
  /\ \E e \in ServiceThrown : Fail("transcribe", e, TranscribeCatch(e))
  /\ UNCHANGED << coordVars, engineVars, cancelPc, calls, ncalls, histVars >>
  /\ UNCHANGED << outerVars, event >>

\* ------------------------------------------------------- segmentByTopics
\* the call, after a transcribeAudio that returned
segmentByTopics ==
  /\ pc = "idle"
  /\ have = "text"
  /\ entered' = entered \cup {"analyzing"}
  /\ UNCHANGED << engineValue, lastLog, outerVars >>
  /\ IF abortController = "aborted"
       THEN /\ outcome' = Failed("analyze", OperationCancelled)
            /\ cause' = [at |-> "entry", thrown |-> OperationCancelled]
            /\ have' = "none"
            /\ UNCHANGED event
            /\ Called("analyze", {})
            /\ UNCHANGED << pc, progress, calls, ncalls >>
       ELSE /\ updateProgress("analyzing", Pending, "none")
            /\ Trigger("analyzing", "none")
            /\ cause' = NoCause
            /\ UNCHANGED have
            /\ pc' = "analyze"
            /\ outcome' = Running("analyze")
            /\ Called("analyze", {"request"})
  /\ UNCHANGED << initialized, abortController, engineVars, cancelPc >>

\* the analysis service answers, with a payload JSON.parse accepts or not
AnalyzeDone ==
  /\ pc = "analyze"
  /\ credential
  /\ updateProgress("analyzing", Unit, "none")
  /\ Trigger("analyzing", "none")
  /\ pc' = "idle"
  /\ \E parses \in BOOLEAN :
       IF parses
         THEN /\ outcome' = Returned("analyze")
              /\ have' = "minutes"
              /\ UNCHANGED cause
         ELSE /\ outcome' = Failed("analyze", AnalyzeCatch(JsonSyntaxError))
              /\ cause' = [at |-> "JSON.parse", thrown |-> JsonSyntaxError]
              /\ have' = "none"
  /\ UNCHANGED outerVars
  /\ UNCHANGED << initialized, abortController, engineVars, cancelPc, histVars >>

\* the request to the analysis service rejects
AnalyzeFail ==
  /\ pc = "analyze"
  /\ \E e \in ServiceThrown : Fail("analyze", e, AnalyzeCatch(e))
  /\ UNCHANGED << coordVars, engineVars, cancelPc, calls, ncalls, histVars >>
  /\ UNCHANGED << outerVars, event >>


\* ------------------------------------------------------------------- App
ConfigurationError ==
  <<"OpenAI API key is not configured. Please add it to your .env file.">>

\* the render guard that shows every screen as the main screen
ScreenAlwaysMain == "main"

\* what App renders: the 'Configuration Required' screen without the key
Screen == IF ~credential THEN "config" ELSE "main"

\* the errors convertToWav, transcribeAudio and segmentByTopics reject with
ConvertErrors ==
  { ConvertCatch(EnsureCatch(e)) : e \in EngineThrown }
    \cup { ConvertCatch(e) : e \in EngineThrown \cup {NullSignalTypeError} }
TranscribeErrors == { TranscribeCatch(e) : e \in ServiceThrown }
AnalyzeErrors == { AnalyzeCatch(e) : e \in ServiceThrown \cup {JsonSyntaxError} }

StageErrors(stage) ==
  CASE stage = "convert" -> ConvertErrors
    [] stage = "transcribe" -> TranscribeErrors
    [] stage = "analyze" -> AnalyzeErrors

\* resetState()
resetState ==
  /\ audioFile' = FALSE
  /\ clientData' = FALSE
  /\ minutes' = 0
  /\ processing' = FALSE
  /\ error' = NoMessage
  /\ errorFrom' = 0
  /\ step' = 1
  /\ audioProcessor' = 0
  /\ progressStatus' = InitialProgressStatus

\* handleFileSelect(file), from the AudioUploader of step 1
handleFileSelect ==
  /\ Screen = "main"
  /\ step = 1
  /\ audioFile' = TRUE
  /\ step' = 2
  /\ error' = NoMessage
  /\ errorFrom' = 0
  /\ UNCHANGED << clientData, minutes, processing, audioProcessor, progressStatus,
                  runs, nruns >>
  /\ UNCHANGED << credential, processorVars, waveVars >>

\* handleClientFormSubmit(data), from the ClientForm of step 2, up to its
\* first await: the key test, the new AudioProcessor and the call of convertToWav
handleClientFormSubmit ==
  /\ Screen = "main"
  /\ step = 2
  /\ audioFile
  /\ nruns < MaxRuns
  /\ IF ~credential
       THEN /\ error' = ConfigurationError
            /\ UNCHANGED << processing, clientData, step, audioProcessor, runs, nruns >>
       ELSE /\ processing' = TRUE
            /\ clientData' = TRUE
            /\ step' = 3
            /\ error' = NoMessage
            /\ nruns' = nruns + 1
            /\ audioProcessor' = nruns'
            /\ runs' = [runs EXCEPT ![nruns'] = [NoRun EXCEPT !.stage = "convert"]]
  /\ errorFrom' = 0
  /\ UNCHANGED << audioFile, minutes, progressStatus >>
  /\ UNCHANGED << credential, processorVars, waveVars >>

\* handleCancel(), from the button shown while step is 3 and processing
handleCancel ==
  /\ Screen = "main"
  /\ step = 3
  /\ processing
  /\ IF audioProcessor # 0
       THEN /\ runs' = [runs EXCEPT ![audioProcessor].cancelledAt =
                          IF runs[audioProcessor].cancelledAt = "none"
                            THEN runs[audioProcessor].stage
                            ELSE runs[audioProcessor].cancelledAt]
            /\ resetState
       ELSE UNCHANGED << step, audioFile, clientData, minutes, processing, error,
                         audioProcessor, progressStatus, runs, errorFrom >>
  /\ UNCHANGED nruns
  /\ UNCHANGED << credential, processorVars, waveVars >>

\* the progress callback of the processor of run r, on an engine event
onProgress(r) ==
  /\ runs[r].stage = "convert"
  /\ runs[r].cancelledAt = "none"
  /\ progressStatus' = [stage |-> "converting", run |-> r]
  /\ UNCHANGED << step, audioFile, clientData, minutes, processing, error,
                  audioProcessor, runs, nruns, errorFrom >>
  /\ UNCHANGED << credential, processorVars, waveVars >>

\* convertToWav of run r returns: transcribeAudio is called and reports 0.1.
\* A convertToWav during which cancel() was called does not return.
ConvertReturns(r) ==
  /\ runs[r].stage = "convert"
  /\ runs[r].cancelledAt # "convert"
  /\ runs' = [runs EXCEPT ![r].stage = "transcribe"]
  /\ progressStatus' = [stage |-> "transcribing", run |-> r]
  /\ UNCHANGED << step, audioFile, clientData, minutes, processing, error,
                  audioProcessor, nruns, errorFrom >>
  /\ UNCHANGED << credential, processorVars, waveVars >>

\* transcribeAudio of run r returns after reporting 1: segmentByTopics is
\* called and reports 0.1
TranscribeReturns(r) ==
  /\ runs[r].stage = "transcribe"
  /\ credential
  /\ runs' = [runs EXCEPT ![r].stage = "analyze"]
  /\ progressStatus' = [stage |-> "analyzing", run |-> r]
  /\ UNCHANGED << step, audioFile, clientData, minutes, processing, error,
                  audioProcessor, nruns, errorFrom >>
  /\ UNCHANGED << credential, processorVars, waveVars >>

\* segmentByTopics of run r returns after reporting 1: setMinutes, setProcessing
AnalyzeReturns(r) ==
  /\ runs[r].stage = "analyze"
  /\ credential
  /\ runs' = [runs EXCEPT ![r].stage = "ended"]
  /\ progressStatus' = [stage |-> "analyzing", run |-> r]
  /\ minutes' = r
  /\ processing' = FALSE
  /\ UNCHANGED << step, audioFile, clientData, error, audioProcessor, nruns,
                  errorFrom >>
  /\ UNCHANGED << credential, processorVars, waveVars >>

\* the stage awaited by run r rejects: the catch block of handleClientFormSubmit
StageFails(r) ==
  /\ runs[r].stage \in {"convert", "transcribe", "analyze"}
  /\ \E e \in StageErrors(runs[r].stage) :
       /\ IF e.message = <<"Operation cancelled">>
            THEN resetState
            ELSE /\ error' = e.message
                 /\ errorFrom' = r
                 /\ processing' = FALSE
                 /\ UNCHANGED << step, audioFile, clientData, minutes, audioProcessor,
                                 progressStatus >>
       /\ runs' = [runs EXCEPT ![r].stage = "ended", ![r].failed = e.message]
  /\ UNCHANGED nruns
  /\ UNCHANGED << credential, processorVars, waveVars >>

\* the condition under which App renders MinutesDisplay
MinutesDisplayed == step = 3 /\ ~processing /\ minutes # 0 /\ clientData

InitApp == Init

NextApp ==
  \/ handleFileSelect
  \/ handleClientFormSubmit
  \/ handleCancel
  \/ \E r \in RunIds : onProgress(r)
  \/ \E r \in RunIds : ConvertReturns(r)
  \/ \E r \in RunIds : TranscribeReturns(r)
  \/ \E r \in RunIds : AnalyzeReturns(r)
  \/ \E r \in RunIds : StageFails(r)

SpecApp == InitApp /\ [][NextApp]_vars

\* ---------------------------------------------------------- AudioWaveform
\* ws.destroy() on instance k
destroy(k) == [instances EXCEPT ![k].destroyed = TRUE]

\* the container div is rendered: the error view replaces it
ContainerRendered == ~waveformError

\* the effect runs (mount, or a new audioFile after the previous cleanup), with
\* initWaveSurfer up to its await: WaveSurfer.create returns or throws
Effect ==
  /\ cleanup = 0
  /\ effects < MaxEffects
  /\ effects' = effects + 1
  /\ IF ~ContainerRendered
       THEN UNCHANGED << wavesurferRef, abortControllerRef, audioUrlRef, isLoading,
                         waveformError, instances, cleanup >>
       ELSE /\ abortControllerRef' = effects'
            /\ audioUrlRef' = TRUE
            /\ wavesurferRef' = 0
            /\ cleanup' = effects'
            /\ \E created \in BOOLEAN :
                 LET cleared == IF wavesurferRef # 0 THEN destroy(wavesurferRef)
                                ELSE instances
                 IN IF created
                      THEN /\ instances' = [cleared EXCEPT ![effects'].load = "loading"]
                           /\ UNCHANGED << isLoading, waveformError >>
                      ELSE /\ instances' = cleared
                           /\ waveformError' = TRUE
                           /\ isLoading' = FALSE
  /\ UNCHANGED aborted
  /\ UNCHANGED << credential, processorVars, appVars >>

\* the cleanup function of the effect (a new audioFile, or unmount)
Cleanup ==
  /\ cleanup # 0
  /\ cleanup' = 0
  /\ aborted' = IF abortControllerRef # 0 THEN aborted \cup {abortControllerRef}
                ELSE aborted
  /\ IF wavesurferRef # 0
       THEN /\ instances' = destroy(wavesurferRef)
            /\ wavesurferRef' = 0
       ELSE UNCHANGED << instances, wavesurferRef >>
  /\ audioUrlRef' = FALSE
  /\ UNCHANGED << abortControllerRef, isLoading, waveformError, effects >>
  /\ UNCHANGED << credential, processorVars, appVars >>

\* ws.load of the instance of effect run k resolves: the 'ready' handler, then
\* the continuation of initWaveSurfer
LoadSucceeds(k) ==
  /\ instances[k].load = "loading"
  /\ isLoading' = FALSE
  /\ IF k \notin aborted
       THEN /\ wavesurferRef' = k
            /\ instances' = [instances EXCEPT ![k].load = "ready"]
       ELSE /\ instances' = [instances EXCEPT ![k].load = "ready", ![k].destroyed = TRUE]
            /\ UNCHANGED wavesurferRef
  /\ UNCHANGED << abortControllerRef, audioUrlRef, waveformError, aborted, cleanup,
                  effects >>
  /\ UNCHANGED << credential, processorVars, appVars >>

\* ws.load of the instance of effect run k rejects: the 'error' handler if the
\* instance emits the event, then the inner catch block of initWaveSurfer
LoadFails(k) ==
  /\ instances[k].load = "loading"
  /\ \E emitted \in BOOLEAN :
       IF k \notin aborted
         THEN /\ waveformError' = TRUE
              /\ isLoading' = FALSE
              /\ instances' = [instances EXCEPT ![k].load = "failed", ![k].destroyed = TRUE]
         ELSE /\ waveformError' = (waveformError \/ emitted)
              /\ isLoading' = (isLoading /\ ~emitted)
              /\ instances' = [instances EXCEPT ![k].load = "failed"]
  /\ UNCHANGED << wavesurferRef, abortControllerRef, audioUrlRef, aborted, cleanup,
                  effects >>
  /\ UNCHANGED << credential, processorVars, appVars >>

InitWave == Init

NextWave ==
  \/ Effect
  \/ Cleanup
  \/ \E k \in EffectIds : LoadSucceeds(k)
  \/ \E k \in EffectIds : LoadFails(k)

SpecWave == InitWave /\ [][NextWave]_vars

\* ---------------------------------------------------------- specification
Next ==
  \/ convertToWav
  \/ BlobURLsDone
  \/ EnsureFail
  \/ LoadDone
  \/ Ensured
  \/ FetchFileDone
  \/ ConvertFail
  \/ WriteFileDone
  \/ EngineProgress
  \/ EngineLog
  \/ ExecDone
  \/ ReadFileDone
  \/ RmInputDone
  \/ RmOutputDone
  \/ cancel
  \/ cancelDone
  \/ transcribeAudio
  \/ TranscribeDone
  \/ TranscribeFail
  \/ segmentByTopics
  \/ AnalyzeDone
  \/ AnalyzeFail

Spec == Init /\ [][Next]_vars

\* ---------------------------------------------------------------- claims
Settled == outcome.status \in {"returned", "failed"}
Cancellation(op) == Failed(op, OperationCancelled)

\* C1: a convertToWav called after cancel() fails with 'Operation cancelled'
\* and issues no engine work (no initialization or load, no writeFile, no exec).
C1_CancelBeforeConvert ==
  (outcome.op = "convert" /\ cancelledBefore) =>
    /\ work = {}
    /\ Settled => outcome = Cancellation("convert")

\* C2: a convertToWav during which cancel() was called settles with exactly
\* 'Operation cancelled', never with another error or a result.
C2_CancelDuringConvert ==
  (outcome.op = "convert" /\ cancelledDuring /\ Settled) =>
    outcome = Cancellation("convert")

\* C3: once cancel() was called during an operation and that operation and
\* cancel() have both settled, the engine handle is uninitialized.
C3_UninitializedAfterCancel ==
  (cancelledDuring /\ pc = "idle" /\ cancelPc = "idle") => ~initialized

\* C4: when convertToWav has returned or failed, neither the input file nor
\* output.wav is left in the engine's working storage.
C4_TemporariesRemoved ==
  (outcome.op = "convert" /\ Settled) => storage \cap {InputFile, OutputFile} = {}

\* C5: a transcribeAudio or segmentByTopics entered after cancel() fails with
\* 'Operation cancelled', sends no request and emits no progress callback.
C5_CancelBeforeService ==
  \A op \in {"transcribe", "analyze"} :
    (outcome.op = op /\ cancelledBefore) =>
      /\ outcome = Cancellation(op)
      /\ work = {}
      /\ \A i \in DOMAIN calls :
           calls[i].stage # (IF op = "transcribe" THEN "transcribing" ELSE "analyzing")

\* C6: cancellation is terminal: once cancel() was called the token reads as
\* signaled in every later state, and no operation called later starts
\* external work or returns a result.
C6_CancelledIsTerminal ==
  cancelled =>
    /\ abortController = "aborted"
    /\ cancelledBefore => (work = {} /\ outcome.status # "returned")

C8_Monotonic ==
  Len(calls) = 2 => \A s \in Stages : calls[2].progress[s] >= calls[1].progress[s]

\* C9: a stage that returned has its slot at exactly 1 when the next stage is
\* entered, and after three successful stages all three slots are 1.
C9_CompletedStageIsOne ==
  /\ have \in {"wav", "text", "minutes"} => progress["converting"] = Unit
  /\ have \in {"text", "minutes"} => progress["transcribing"] = Unit
  /\ have = "minutes" => progress["analyzing"] = Unit

\* C10: within a run, the slot of a stage not yet entered in that run is 0,
\* also in a run started by calling convertToWav again on the same instance.
C10_UnreachedStageIsZero ==
  entered # {} => \A s \in Stages \ entered : progress[s] = 0

\* C11: with the credential missing, transcribeAudio and segmentByTopics fail
\* with the AuthenticationError and issue no request to the service.
C11_MissingCredential ==
  (~credential /\ outcome.op \in {"transcribe", "analyze"}) =>
    /\ "request" \notin work
    /\ outcome.status # "returned"
    /\ Settled => outcome.error = AuthenticationError

\* C13: nothing is loaded before the first convertToWav, and while the instance
\* is not cancelled a ready engine stays ready and no convertToWav starts
\* another initialization or load.
C13_LoadedOnce ==
  /\ [](outcome.op = "none" => (~initialized /\ ~loaded /\ work = {}))
  /\ [][(initialized /\ ~cancelled') =>
          /\ initialized'
          /\ pc' \notin {"toBlobURL", "load"}
          /\ (work' \cap {"init", "load"}) \subseteq work]_vars

\* C13 witness: on an instance never cancelled a convertToWav has returned
\* without any initialization or load of its own.
C13_Witness ==
  /\ ~cancelled
  /\ outcome = Returned("convert")
  /\ initialized
  /\ work \cap {"init", "load"} = {}

CancelCalled == cancelPc = "idle" /\ cancelPc' # "idle"
CancelReturned == cancelPc = "terminated" /\ cancelPc' = "idle"

C15_SnapshotImmutable ==
  \A i \in DOMAIN calls : Seen(calls[i]) = calls[i].progress

\* C15 witness: the record has changed since the earlier of two callbacks and
\* its snapshot still reads as delivered.
C15_Witness ==
  /\ Len(calls) = 2
  /\ calls[1].progress # progress
  /\ Seen(calls[1]) = calls[1].progress

HasPrefix(e, prefix) == e.isError /\ Len(e.message) >= 1 /\ e.message[1] = prefix

\* C16: on a payload JSON.parse rejects, segmentByTopics fails with an error
\* that is not the AnalysisError wrapping.
C16_MalformedResponse ==
  (outcome.op = "analyze" /\ cause.at = "JSON.parse") =>
    /\ outcome.status = "failed"
    /\ ~HasPrefix(outcome.error, "Failed to analyze transcription: ")

FetchFailures == { Error(<<"failed to fetch">>), Error(<<"Failed to fetch">>) }

\* C18: when the engine initialization fails (other than by an abort),
\* convertToWav reports the InitializationError itself: the connectivity
\* message for a fetch failure, the generic one otherwise.
C18_InitializationError ==
  (outcome.op = "convert" /\ outcome.status = "failed"
     /\ cause.at \in {"toBlobURL", "load"}
     /\ EnsureCatch(cause.thrown) # OperationCancelled) =>
    outcome.error = (IF cause.thrown \in FetchFailures THEN InitConnectivity
                     ELSE InitGeneric)

StagePrefix(op) ==
  CASE op = "convert" -> "Failed to convert audio: "
    [] op = "transcribe" -> "Failed to transcribe audio: "
    [] op = "analyze" -> "Failed to analyze transcription: "

\* what reaches the catch block of the operation that failed
Raised ==
  IF cause.at \in {"toBlobURL", "load"} THEN EnsureCatch(cause.thrown)
  ELSE cause.thrown

\* the failure was the rejection of a call the operation awaited
ExternalFailure == cause.at \notin {"entry", "ensured", "JSON.parse", "none"}

\* the cancellation error was raised by the operation itself
CancellationRaised ==
  \/ cause.at \in {"entry", "ensured"} /\ cause.thrown = OperationCancelled
  \/ cause.at \in {"toBlobURL", "load"} /\ Raised = OperationCancelled

CredentialFailure ==
  /\ outcome.op \in {"transcribe", "analyze"}
  /\ ExternalFailure
  /\ cause.thrown.isError
  /\ Includes(cause.thrown.message, "API key")

C20_Lossless ==
  /\ ncalls = event.n
  /\ event.n > 0 =>
       /\ calls # <<>>
       /\ calls[Len(calls)].stage = event.stage
       /\ calls[Len(calls)].details = event.details
       /\ calls[Len(calls)].progress = progress

\* C20 witness: a bitrate log line that left the slot as the progress event
\* before it had set it has produced a callback of its own.
C20_Witness ==
  /\ event.n = 2
  /\ ncalls = 2
  /\ event.details = "bitrate"
  /\ Len(calls) = 2
  /\ calls[1].details = "processing"
  /\ calls[2].progress = calls[1].progress

\* a log line of the engine has been handled in this step
LogHandled(kind) ==
  /\ lastLog' = kind
  /\ \/ lastLog # kind
     \/ kind = "bitrate" /\ event'.n = event.n + 1 /\ event'.details = "bitrate"

\* C21: a log line with a bitrate annotation produces one callback, for the
\* converting stage and with the bitrate detail, whose snapshot is the
\* progress record, and leaves the three slots as they were; a log line
\* without the annotation produces no callback and changes no slot.
C21_LogFrame ==
  [][/\ LogHandled("bitrate") =>
          /\ progress' = progress
          /\ ncalls' = ncalls + 1
          /\ calls' # <<>>
          /\ calls'[Len(calls')].stage = "converting"
          /\ calls'[Len(calls')].details = "bitrate"
          /\ calls'[Len(calls')].progress = progress
     /\ LogHandled("plain") =>
          UNCHANGED << coordVars, calls, ncalls >>]_vars

\* C21 witness: after a progress event moved the converting slot, a log line
\* with a bitrate annotation was reported with the slot where the event left it.
C21_Witness ==
  /\ lastLog = "bitrate"
  /\ progress["converting"] = Unit \div 2
  /\ Len(calls) = 2
  /\ calls[1].details = "processing"
  /\ calls[2].details = "bitrate"
  /\ calls[2].progress = progress

ServicePc(stage) == IF stage = "transcribing" THEN "transcribe" ELSE "analyze"

\* C22: transcribeAudio and segmentByTopics report 0.1 for their stage in
\* the step that issues the request, the slot stays at 0.1 while the request
\* is in flight, the only callback made meanwhile is the one that reports 1
\* when the request has resolved, and a rejected request leaves the slot at
\* 0.1 and the callbacks as they were.
C22_PendingComplete ==
  /\ [](\A stage \in {"transcribing", "analyzing"} :
          pc = ServicePc(stage) => progress[stage] = Pending)
  /\ [][\A stage \in {"transcribing", "analyzing"} :
          /\ (pc = "idle" /\ pc' = ServicePc(stage)) =>
               /\ "request" \in work'
               /\ progress' = [progress EXCEPT ![stage] = Pending]
               /\ ncalls' = ncalls + 1
               /\ calls'[Len(calls')].stage = stage
               /\ calls'[Len(calls')].progress = progress'
          /\ (/\ pc = ServicePc(stage)
              /\ (progress' # progress \/ calls' # calls \/ ncalls' # ncalls)) =>
               /\ pc' = "idle"
               /\ outcome'.status = "returned" \/ cause'.at = "JSON.parse"
               /\ progress' = [progress EXCEPT ![stage] = Unit]
               /\ ncalls' = ncalls + 1
          /\ (pc = ServicePc(stage) /\ outcome'.status = "failed" /\ cause'.at = pc) =>
               /\ UNCHANGED << progress, calls, ncalls >>
               /\ progress'[stage] = Pending]_vars

\* C22 witness: the transcription request was rejected and the last callback
\* is still the one that reported 0.1.
C22_Witness ==
  /\ outcome.op = "transcribe"
  /\ outcome.status = "failed"
  /\ cause.at = "transcribe"
  /\ progress["transcribing"] = Pending
  /\ calls # <<>>
  /\ calls[Len(calls)].stage = "transcribing"
  /\ calls[Len(calls)].progress["transcribing"] = Pending

StageOf(op) ==
  CASE op = "convert" -> "converting"
    [] op = "transcribe" -> "transcribing"
    [] op = "analyze" -> "analyzing"

\* C23: an operation that has ended in failure does not leave the slot of
\* its stage at 1.
C23_OneOnlyOnSuccess ==
  outcome.status = "failed" => progress[StageOf(outcome.op)] # Unit

\* What a run of the App assumes of its processor holds of the processor:
\* a convertToWav during which cancel() was called does not return, and each
\* operation rejects only with an error of its StageErrors.
RunsAbstractProcessor ==
  /\ (outcome = Returned("convert")) => ~cancelledDuring
  /\ (outcome.status = "failed" /\ outcome.op = "convert")
       => outcome.error \in ConvertErrors
  /\ (outcome.status = "failed" /\ outcome.op = "transcribe")
       => outcome.error \in TranscribeErrors
  /\ (outcome.status = "failed" /\ outcome.op = "analyze")
       => outcome.error \in AnalyzeErrors

\* C12: without the credential the App shows the configuration screen and
\* nothing else: no AudioProcessor is constructed, no run of
\* handleClientFormSubmit starts (so none of convertToWav, transcribeAudio,
\* segmentByTopics is called), and no stage error is shown.
C12_ConfigurationDetected ==
  ~credential =>
    /\ Screen = "config"
    /\ audioProcessor = 0
    /\ nruns = 0
    /\ \A r \in RunIds : runs[r] = NoRun
    /\ errorFrom = 0

\* C12 happens: the App is rendered without the credential
C12_Witness == ~credential /\ Screen = "config" /\ step = 1 /\ nruns = 0

\* C17: no error message on the screen was set by the catch block of a run
\* that the user cancelled, whichever stage was awaited when handleCancel ran
\* and however that stage settled afterwards.
C17_CancelIsSilent ==
  \A r \in RunIds : runs[r].cancelledAt # "none" => errorFrom # r

\* the rest of C17, which the handlers do as claimed: handleCancel leaves
\* step 1 and no error message, and a run that was not cancelled and fails
\* with another message than 'Operation cancelled' sets error to that message
C17_HandlersAsClaimed ==
  [][\A r \in RunIds :
       /\ (runs[r].cancelledAt = "none" /\ runs'[r].cancelledAt # "none")
            => (step' = 1 /\ error' = NoMessage)
       /\ (/\ runs[r].failed # runs'[r].failed
           /\ runs'[r].failed # <<"Operation cancelled">>
           /\ runs[r].cancelledAt = "none")
            => (error' = runs'[r].failed /\ errorFrom' = r)]_vars

\* C24: once handleCancel has cancelled a run, progressStatus is never the
\* value a callback of that run's processor set, minutes is never that run's
\* result, and so MinutesDisplay never shows it.
C24_CancelledRunIsInert ==
  \A r \in RunIds :
    runs[r].cancelledAt # "none" =>
      /\ progressStatus.run # r
      /\ minutes # r
      /\ ~(MinutesDisplayed /\ minutes = r)

\* the load of the instance of effect run k has resolved or rejected
LoadSettled(k) == instances[k].load \in {"ready", "failed"}

\* C25: every instance whose effect run has been cleaned up and whose load
\* has settled is destroyed, in whichever order the two happened, and no
\* instance of an aborted effect run is in wavesurferRef.
C25_InstancesDestroyed ==
  \A k \in EffectIds :
    k \in aborted =>
      /\ LoadSettled(k) => instances[k].destroyed
      /\ wavesurferRef # k

TypeOK ==
  /\ initialized \in BOOLEAN
  /\ abortController \in {"null", "live", "aborted"}
  /\ progress \in [Stages -> 0..Unit]
  /\ storage \subseteq {InputFile, OutputFile}
  /\ cancelPc \in {"idle", "terminated"}
  /\ have \in {"none", "wav", "text", "minutes"}
  /\ Len(calls) <= 2
  /\ lastLog \in {"none", "plain", "bitrate"}
  /\ step \in 1..3
  /\ minutes \in 0..MaxRuns
  /\ audioProcessor \in 0..MaxRuns
  /\ nruns \in 0..MaxRuns
  /\ errorFrom \in 0..MaxRuns
  /\ progressStatus.run \in 0..MaxRuns
====
